---------------------------- MODULE Spec2Model ----------------------------
(***************************************************************************)
(* Model of src/density/density.cpp: the distributed density histogram.    *)
(*                                                                         *)
(* Every MPI rank is a process running  Density::Density  and then         *)
(* Density::run.  A rank's code is cut at its blocking collectives         *)
(* (MPI_Allreduce, MPI_Barrier): one action runs the code from the return  *)
(* of one collective up to the entry of the next one.                      *)
(*                                                                         *)
(*  - assert() is compiled in: a failed assertion calls abort() in the     *)
(*    failing process only.  Nothing in the source calls MPI_Abort, so a   *)
(*    process that dies leaves its peers where they are.                   *)
(*  - float samples are integers here (exactly representable); the double  *)
(*    arithmetic of the binning loop is IEEE-754 binary64 with round to    *)
(*    nearest even, computed on multi-limb significands.                   *)
(*  - undefined behaviour (static_cast<int> of a NaN, a write outside      *)
(*    local_histo) is a nondeterministic choice over its outcomes.         *)
(***************************************************************************)
EXTENDS Integers, Sequences, FiniteSets, TLC

VARIABLES
  env,          \* the run: nb_ranks, the configuration file, the file system
  pc,           \* pc[r]: where rank r is in its code
  inputs,       \* inputs[r]: Density::inputs, the shard of rank r
  local_count,  \* local_count[r]
  total_count,  \* total_count[r]
  density,      \* density[r]: the sample buffer
  load_ok,      \* load_ok[r]: what loadFiles returned ("none" before it ran)
  total_max,    \* total_max[r]
  total_min,    \* total_min[r]
  local_histo,  \* local_histo[r]: the stack array of computeFrequencies
  indices,      \* indices[r]: the value of index at each local_histo[index]++
  histo,        \* histo[r]
  sent,         \* sent[r]: what rank r gave to its collectives, in call order
  outfile,      \* the file output_plot + ".dat"
  stdout        \* stdout[r]: what rank r printed

vars == <<env, pc, inputs, local_count, total_count, density, load_ok,
          total_max, total_min, local_histo, indices, histo, sent, outfile,
          stdout>>

----------------------------------------------------------------------------
(* Bounds of the model.                                                    *)

\* ranks of the communicator: nb_ranks in 1..MaxRanks
MaxRanks == 3
\* files of the input list in the partition runs: 0..MaxFiles
MaxFiles == 4
\* files of the input list in the data runs: 1..MaxDataFiles
MaxDataFiles == 2

----------------------------------------------------------------------------
(* Naturals of any size: little-endian sequences of limbs below 2^15, the  *)
(* top limb nonzero.  An operator that reads an argument more than once    *)
(* takes its value first (At, At2), so that no expression is computed      *)
(* again at each use.                                                      *)

\* F(e) and F(e1, e2), the arguments evaluated once
At(F(_), e) == CHOOSE y \in {F(x) : x \in {e}} : TRUE
At2(F(_, _), e1, e2) == CHOOSE y \in {F(x1, x2) : x1 \in {e1}, x2 \in {e2}} : TRUE

Limb == 2^15

RECURSIVE Pow2(_)
Pow2(k) == IF k = 0 THEN 1 ELSE 2 * Pow2(k - 1)

Zeros(n) == [i \in 1..n |-> 0]

\* a without its leading zero limbs
BNorm(a0) ==
  At(LAMBDA a :
       SubSeq(a, 1, CHOOSE i \in 0..Len(a) :
                      /\ (i = 0 \/ a[i] # 0)
                      /\ \A j \in (i + 1)..Len(a) : a[j] = 0),
     a0)

\* -1, 0, 1 as a < b, a = b, a > b
BCmp(a0, b0) ==
  At2(LAMBDA a, b :
        IF Len(a) < Len(b) THEN -1
        ELSE IF Len(a) > Len(b) THEN 1
        ELSE IF a = b THEN 0
        ELSE LET i == CHOOSE j \in 1..Len(a) :
                        a[j] # b[j] /\ \A h \in (j + 1)..Len(a) : a[h] = b[h]
             IN  IF a[i] < b[i] THEN -1 ELSE 1,
      a0, b0)

Dig(a, i) == IF i <= Len(a) THEN a[i] ELSE 0

RECURSIVE BAddAt(_, _, _, _)
BAddAt(a, b, i, c) ==
  IF i > Len(a) /\ i > Len(b) THEN (IF c = 0 THEN <<>> ELSE <<c>>)
  ELSE LET s == Dig(a, i) + Dig(b, i) + c
       IN  <<s % Limb>> \o BAddAt(a, b, i + 1, s \div Limb)

BAdd(a0, b0) == At2(LAMBDA a, b : BAddAt(a, b, 1, 0), a0, b0)

RECURSIVE BSubAt(_, _, _, _)
BSubAt(a, b, i, c) ==
  IF i > Len(a) THEN <<>>
  ELSE LET s == a[i] - Dig(b, i) - c
       IN  IF s < 0 THEN <<s + Limb>> \o BSubAt(a, b, i + 1, 1)
                    ELSE <<s>> \o BSubAt(a, b, i + 1, 0)

\* a - b, for a >= b
BSub(a0, b0) == At2(LAMBDA a, b : BNorm(BSubAt(a, b, 1, 0)), a0, b0)

RECURSIVE BMulSmallAt(_, _, _, _)
BMulSmallAt(a, d, i, c) ==
  IF i > Len(a) THEN (IF c = 0 THEN <<>> ELSE <<c>>)
  ELSE LET s == a[i] * d + c
       IN  <<s % Limb>> \o BMulSmallAt(a, d, i + 1, s \div Limb)

\* a * d, for a digit d < Limb
BMulSmall(a0, d0) ==
  At2(LAMBDA a, d : IF d = 0 THEN <<>> ELSE BMulSmallAt(a, d, 1, 0), a0, d0)

RECURSIVE BMulAt(_, _, _)
BMulAt(a, b, i) ==
  IF i > Len(b) THEN <<>>
  ELSE BAdd(IF b[i] = 0 THEN <<>> ELSE Zeros(i - 1) \o BMulSmall(a, b[i]),
            BMulAt(a, b, i + 1))

BMul(a0, b0) == At2(LAMBDA a, b : BMulAt(a, b, 1), a0, b0)

\* a * 2^k
BShl(a0, k0) ==
  At2(LAMBDA a, k :
        IF a = <<>> THEN a ELSE Zeros(k \div 15) \o BMulSmall(a, Pow2(k % 15)),
      a0, k0)

\* the number of bits of a
BBitLen(a0) ==
  At(LAMBDA a :
       IF a = <<>> THEN 0
       ELSE 15 * (Len(a) - 1)
            + (CHOOSE n \in 1..15 : Pow2(n - 1) <= a[Len(a)] /\ a[Len(a)] < Pow2(n)),
     a0)

RECURSIVE BDivSmallAt(_, _, _, _)
BDivSmallAt(a, d, i, r) ==
  IF i = 0 THEN <<>>
  ELSE LET s == r * Limb + a[i]
       IN  BDivSmallAt(a, d, i - 1, s % d) \o <<s \div d>>

\* floor(a / 2^k)
BShr(a0, k0) ==
  At2(LAMBDA a, k :
        IF k \div 15 >= Len(a) THEN <<>>
        ELSE At(LAMBDA t : BNorm(BDivSmallAt(t, Pow2(k % 15), Len(t), 0)),
                SubSeq(a, (k \div 15) + 1, Len(a))),
      a0, k0)

BFromNat(n) == BNorm(<<n % Limb, (n \div Limb) % Limb, n \div (Limb * Limb)>>)

\* the largest digit d in lo..hi with d * b <= r  (lo * b <= r on entry)
RECURSIVE DivDigit(_, _, _, _)
DivDigit(r, b, lo, hi) ==
  IF lo = hi THEN lo
  ELSE At(LAMBDA mid :
            IF BCmp(BMulSmall(b, mid), r) <= 0
            THEN DivDigit(r, b, mid, hi)
            ELSE DivDigit(r, b, lo, mid - 1),
          (lo + hi + 1) \div 2)

\* quotient digits (prepended to q) and remainder of (r0 * Limb^n) by b, for
\* r0 < b
RECURSIVE DivLimbs(_, _, _, _)
DivLimbs(r0, b, n, q) ==
  IF n = 0 THEN [q |-> q, r |-> r0]
  ELSE At(LAMBDA r1 :
            At(LAMBDA d :
                 DivLimbs(BSub(r1, BMulSmall(b, d)), b, n - 1, <<d>> \o q),
               DivDigit(r1, b, 0, Limb - 1)),
          IF r0 = <<>> THEN r0 ELSE <<0>> \o r0)

----------------------------------------------------------------------------
(* double: IEEE-754 binary64, round to nearest, ties to even.  A finite    *)
(* nonzero value is (-1)^sgn * man * 2^exp with 2^52 <= man < 2^53.  The   *)
(* values of the model stay far from overflow and from the subnormals.     *)

DZero == [cls |-> "zero", sgn |-> 0, man |-> <<>>, exp |-> 0]
DNaN  == [cls |-> "nan",  sgn |-> 0, man |-> <<>>, exp |-> 0]
DInf(s) == [cls |-> "inf", sgn |-> s, man |-> <<>>, exp |-> 0]

\* m of more than 53 bits cut to 53, to nearest, ties to even
DRoundCut(s, m, e, k) ==
  At(LAMBDA q :
       At(LAMBDA c :
            At(LAMBDA q2 :
                 IF BBitLen(q2) = 54
                 THEN [cls |-> "fin", sgn |-> s, man |-> BShr(q2, 1), exp |-> e + k + 1]
                 ELSE [cls |-> "fin", sgn |-> s, man |-> q2, exp |-> e + k],
               IF c = 1 \/ (c = 0 /\ q[1] % 2 = 1) THEN BAdd(q, <<1>>) ELSE q),
          BCmp(BSub(m, BShl(q, k)), BShl(<<1>>, k - 1))),
     BShr(m, k))

\* the double nearest to (-1)^s * m0 * 2^e, for m0 > 0
DRound(s, m0, e) ==
  At(LAMBDA m :
       At(LAMBDA L :
            IF L <= 53
            THEN [cls |-> "fin", sgn |-> s, man |-> BShl(m, 53 - L),
                  exp |-> e - (53 - L)]
            ELSE DRoundCut(s, m, e, L - 53),
          BBitLen(m)),
     m0)

\* a float sample or an int converted to double: exact
DFromInt(n) == IF n = 0 THEN DZero
               ELSE DRound(IF n < 0 THEN 1 ELSE 0, BFromNat(IF n < 0 THEN -n ELSE n), 0)

DNeg(u0) == At(LAMBDA u : IF u.cls = "nan" THEN u ELSE [u EXCEPT !.sgn = 1 - u.sgn], u0)

\* u + v for finite nonzero u, v
DAddFin(u, v) ==
  At2(LAMBDA mu, mv :
        IF u.sgn = v.sgn THEN DRound(u.sgn, BAdd(mu, mv), IF u.exp < v.exp THEN u.exp ELSE v.exp)
        ELSE At(LAMBDA c :
                  IF c = 0 THEN DZero
                  ELSE IF c = 1
                  THEN DRound(u.sgn, BSub(mu, mv), IF u.exp < v.exp THEN u.exp ELSE v.exp)
                  ELSE DRound(v.sgn, BSub(mv, mu), IF u.exp < v.exp THEN u.exp ELSE v.exp),
                BCmp(mu, mv)),
      BShl(u.man, IF u.exp < v.exp THEN 0 ELSE u.exp - v.exp),
      BShl(v.man, IF u.exp < v.exp THEN v.exp - u.exp ELSE 0))

DAdd(u0, v0) ==
  At2(LAMBDA u, v :
        IF u.cls = "nan" \/ v.cls = "nan" THEN DNaN
        ELSE IF u.cls = "inf"
             THEN (IF v.cls = "inf" /\ v.sgn # u.sgn THEN DNaN ELSE u)
        ELSE IF v.cls = "inf" THEN v
        ELSE IF u.cls = "zero" THEN (IF v.cls = "zero" THEN DZero ELSE v)
        ELSE IF v.cls = "zero" THEN u
        ELSE DAddFin(u, v),
      u0, v0)

DSub(u, v) == DAdd(u, DNeg(v))

DMul(u0, v0) ==
  At2(LAMBDA u, v :
        IF u.cls = "nan" \/ v.cls = "nan" THEN DNaN
        ELSE IF u.cls = "inf" \/ v.cls = "inf"
             THEN (IF u.cls = "zero" \/ v.cls = "zero" THEN DNaN
                   ELSE DInf((u.sgn + v.sgn) % 2))
        ELSE IF u.cls = "zero" \/ v.cls = "zero"
             THEN [DZero EXCEPT !.sgn = (u.sgn + v.sgn) % 2]
        ELSE DRound((u.sgn + v.sgn) % 2, BMul(u.man, v.man), u.exp + v.exp),
      u0, v0)

\* u / v for finite nonzero u, v: 61 or 62 bits of the quotient and a sticky
\* bit, rounded
DDivFin(u, v) ==
  At(LAMBDA ge :
       At(LAMBDA d :
            DRound((u.sgn + v.sgn) % 2,
                   BAdd(BMulSmall(BNorm(d.q), 2), IF d.r = <<>> THEN <<>> ELSE <<1>>),
                   u.exp - v.exp - 61),
          DivLimbs(IF ge THEN BSub(u.man, v.man) ELSE u.man, v.man, 4,
                   IF ge THEN <<1>> ELSE <<>>)),
     BCmp(u.man, v.man) >= 0)

DDiv(u0, v0) ==
  At2(LAMBDA u, v :
        IF u.cls = "nan" \/ v.cls = "nan" THEN DNaN
        ELSE IF u.cls = "inf"
             THEN (IF v.cls = "inf" THEN DNaN ELSE DInf((u.sgn + v.sgn) % 2))
        ELSE IF v.cls = "inf" THEN [DZero EXCEPT !.sgn = (u.sgn + v.sgn) % 2]
        ELSE IF v.cls = "zero"
             THEN (IF u.cls = "zero" THEN DNaN ELSE DInf((u.sgn + v.sgn) % 2))
        ELSE IF u.cls = "zero" THEN [DZero EXCEPT !.sgn = (u.sgn + v.sgn) % 2]
        ELSE DDivFin(u, v),
      u0, v0)

\* static_cast<int>(double): truncation toward zero; undefined (def = FALSE)
\* for a NaN, an infinity or a magnitude of 2^31 or more
StaticCastInt(u0) ==
  At(LAMBDA u :
       IF u.cls = "zero" THEN [def |-> TRUE, val |-> 0]
       ELSE IF u.cls # "fin" \/ u.exp > -22 THEN [def |-> FALSE, val |-> 0]
       ELSE At(LAMBDA q :
                 [def |-> TRUE,
                  val |-> (IF u.sgn = 1 THEN -1 ELSE 1)
                          * (Dig(q, 1) + Limb * Dig(q, 2) + Limb * Limb * Dig(q, 3))],
               BShr(u.man, -u.exp)),
     u0)

----------------------------------------------------------------------------
(* The file system and the configurations of the bounded runs.             *)

\* the raw sample files: path :> the float samples the file holds
Disk ==
  ("a.bin" :> <<0, 63>>) @@ ("b.bin" :> <<90>>) @@ ("c.bin" :> <<-27>>) @@
  ("empty.bin" :> <<>>) @@
  ("w0.bin" :> <<0, 1, 2>>) @@ ("w1.bin" :> <<3, 4>>) @@
  ("p0.bin" :> <<0>>) @@ ("p1.bin" :> <<1>>) @@ ("p2.bin" :> <<2>>) @@
  ("p3.bin" :> <<3>>) @@ ("p4.bin" :> <<4>>) @@ ("p5.bin" :> <<5>>)

\* entries of json["density"]["inputs"] in the data runs: sound files, an
\* empty file, a path that cannot be opened and a count larger than the file
DataInputs ==
  { [data |-> "a.bin", count |-> 2], [data |-> "b.bin", count |-> 1],
    [data |-> "c.bin", count |-> 1], [data |-> "empty.bin", count |-> 0],
    [data |-> "missing.bin", count |-> 1], [data |-> "b.bin", count |-> 2] }

DataBins == {1, 3, 10}

PartitionInputs ==
  << [data |-> "p0.bin", count |-> 1], [data |-> "p1.bin", count |-> 1],
     [data |-> "p2.bin", count |-> 1], [data |-> "p3.bin", count |-> 1],
     [data |-> "p4.bin", count |-> 1], [data |-> "p5.bin", count |-> 1] >>

PartitionBins == {2}

SeqsOfLen(S, n) == [1..n -> S]

\* data runs: any list of 1..MaxDataFiles entries of DataInputs
DataRuns ==
  { [nb_ranks |-> w, inputs |-> l, nb_bins |-> n, has_fields |-> TRUE, out_ok |-> o] :
      w \in 1..MaxRanks,
      l \in UNION { SeqsOfLen(DataInputs, t) : t \in 1..MaxDataFiles },
      n \in DataBins, o \in BOOLEAN }

\* partition runs: the first t files of PartitionInputs, t in 0..MaxFiles
PartitionRuns ==
  { [nb_ranks |-> w, inputs |-> SubSeq(PartitionInputs, 1, t), nb_bins |-> n,
     has_fields |-> TRUE, out_ok |-> TRUE] :
      w \in 1..MaxRanks, t \in 0..MaxFiles, n \in PartitionBins }

\* the two-worker example: [0, 1, 2] and [3, 4], five bins
ExampleRun ==
  [nb_ranks |-> 2,
   inputs |-> << [data |-> "w0.bin", count |-> 3], [data |-> "w1.bin", count |-> 2] >>,
   nb_bins |-> 5, has_fields |-> TRUE, out_ok |-> TRUE]

\* malformed configuration files: a required field missing, nb_bins <= 0
BadRuns ==
  { [nb_ranks |-> w, inputs |-> SubSeq(PartitionInputs, 1, w), nb_bins |-> n,
     has_fields |-> f, out_ok |-> TRUE] :
      w \in 1..MaxRanks,
      n \in {-1, 0}, f \in BOOLEAN } \cup
  { [nb_ranks |-> w, inputs |-> SubSeq(PartitionInputs, 1, w), nb_bins |-> 2,
     has_fields |-> FALSE, out_ok |-> TRUE] : w \in 1..MaxRanks }

Runs == DataRuns \cup PartitionRuns \cup {ExampleRun} \cup BadRuns

----------------------------------------------------------------------------
(* The pure parts of the program.                                          *)

Ranks == 0..(env.nb_ranks - 1)

RECURSIVE SumSeq(_)
SumSeq(q) == IF q = <<>> THEN 0 ELSE q[1] + SumSeq(Tail(q))

\* *std::max_element, *std::min_element over a non-empty buffer
MaxSeq(q) == CHOOSE m \in {q[i] : i \in 1..Len(q)} : \A i \in 1..Len(q) : q[i] <= m
MinSeq(q) == CHOOSE m \in {q[i] : i \in 1..Len(q)} : \A i \in 1..Len(q) : q[i] >= m

\* MPI_MIN that hands back the first contribution unreduced
FirstContribution(vals) == vals[1]

\* MPI_SUM over count elements that hands back the first contribution unreduced
FirstContributionN(vals, count) == [k \in 1..count |-> vals[1][k]]

\* the reduction of the counts called with MPI_MAX in place of MPI_SUM
MaxContributionN(vals, count) ==
  [k \in 1..count |-> MaxSeq([i \in 1..Len(vals) |-> vals[i][k]])]

\* MPI_Allreduce with MPI_SUM, MPI_MAX, MPI_MIN: vals[i] is what rank i-1 sent
MPI_SUM(vals) == SumSeq(vals)
MPI_MAX(vals) == MaxSeq(vals)
MPI_MIN(vals) == MinSeq(vals)
\* MPI_SUM over count elements: element by element
MPI_SUM_N(vals, count) == [k \in 1..count |-> SumSeq([i \in 1..Len(vals) |-> vals[i][k]])]

\* rank_mismatch without its first disjunct
RemainderMismatch(partition_size, nb_ranks) == partition_size % nb_ranks # 0

\* bool rank_mismatch of the constructor
RankMismatch(partition_size, nb_ranks) ==
  (partition_size < nb_ranks) \/ (partition_size % nb_ranks # 0)

\* index = i + my_rank: the offset forgotten
ShardIndexNoOffset(i, my_rank, offset) == i + my_rank + 1

\* int index = i + my_rank * offset, as a position of the 1-based list
ShardIndex(i, my_rank, offset) == i + my_rank * offset + 1

\* the dispatch loop of the constructor: the shard of my_rank
Dispatch(list, my_rank, offset) ==
  [i \in 1..offset |-> list[ShardIndex(i - 1, my_rank, offset)]]

\* the loop of loadFiles over inputs[i..]: the buffer it leaves and whether it
\* returned false from inside the loop.  read() stores the samples the file
\* has, at most count of them, and leaves the rest of the region as it was.
RECURSIVE LoadLoop(_, _, _, _)
LoadLoop(inp, i, offset, buf) ==
  IF i > Len(inp) THEN [failed |-> FALSE, buf |-> buf]
  ELSE IF inp[i].data \notin DOMAIN Disk THEN [failed |-> TRUE, buf |-> buf]
  ELSE LET file == Disk[inp[i].data]
           got  == IF Len(file) < inp[i].count THEN Len(file) ELSE inp[i].count
       IN  LoadLoop(inp, i + 1, offset + inp[i].count,
                    [k \in 1..Len(buf) |->
                       IF k > offset /\ k <= offset + got THEN file[k - offset]
                       ELSE buf[k]])

\* lines 151-152: the index of sample v before the check against nb_bins
RawIndex(v, tmin, tmax, nb_bins) ==
  LET range          == DSub(DFromInt(tmax), DFromInt(tmin))
      capacity       == DDiv(range, DFromInt(nb_bins))
      relative_value == DDiv(DSub(DFromInt(v), DFromInt(tmin)), range)
  IN  StaticCastInt(DDiv(DMul(range, relative_value), capacity))

\* the samples a rank can hold after loading files of descrs (0.0f where
\* nothing was read), and the arguments RawIndex is tabulated for
SamplesOf(descrs) ==
  {0} \cup UNION { {Disk[d.data][k] : k \in 1..Len(Disk[d.data])} :
                     d \in {e \in descrs : e.data \in DOMAIN Disk} }

ElemsOf(q) == {q[i] : i \in 1..Len(q)}

IndexDomain ==
  LET Cases(V, B) == { c \in V \X V \X V \X B : c[2] <= c[1] /\ c[1] <= c[3] }
  IN  Cases(SamplesOf(DataInputs), DataBins)
      \cup Cases(SamplesOf(ElemsOf(PartitionInputs)), PartitionBins)
      \cup Cases(SamplesOf(ElemsOf(ExampleRun.inputs)), {ExampleRun.nb_bins})

\* RawIndex, tabulated once
RawIndexOf == [c \in IndexDomain |-> RawIndex(c[1], c[2], c[3], c[4])] @@ <<>>

\* what static_cast<int> of a NaN may give: INT_MIN (cvttsd2si), 0 (fcvtzs)
UBCastValues == {-2147483647 - 1, 0}

\* the int that static_cast<int> leaves in index: ub where the cast is undefined
CastResult(c, ub) == IF c.def THEN c.val ELSE ub

\* lines 153-154 left out
NoClamp(index, nb_bins) == index

\* lines 153-154: if (index >= nb_bins) index--
ClampIndex(index, nb_bins) == IF index >= nb_bins THEN index - 1 ELSE index

\* lines 151-154 for sample v, in a build where an undefined cast gives ub
BinIndex(v, tmin, tmax, nb_bins, ub) ==
  ClampIndex(CastResult(RawIndexOf[<<v, tmin, tmax, nb_bins>>], ub), nb_bins)

\* the loop of lines 150-158 with the bound k < local_count - 1
RECURSIVE BinLoopShort(_, _, _, _, _)
BinLoopShort(idx, k, lh, nb_bins, oob) ==
  IF k >= Len(idx) THEN [crashed |-> FALSE, lh |-> lh, idx |-> idx]
  ELSE IF idx[k] >= 0 /\ idx[k] < nb_bins
  THEN BinLoopShort(idx, k + 1, [lh EXCEPT ![idx[k] + 1] = @ + 1], nb_bins, oob)
  ELSE IF oob = "crash"
  THEN [crashed |-> TRUE, lh |-> lh, idx |-> SubSeq(idx, 1, k)]
  ELSE BinLoopShort(idx, k + 1, lh, nb_bins, oob)

\* lines 150-158 from sample k on, idx[k] being the index of sample k.  oob is
\* what a write outside local_histo does: "crash" ends the process, "stray"
\* hits other memory and leaves local_histo as it is.
RECURSIVE BinLoop(_, _, _, _, _)
BinLoop(idx, k, lh, nb_bins, oob) ==
  IF k > Len(idx) THEN [crashed |-> FALSE, lh |-> lh, idx |-> idx]
  ELSE IF idx[k] >= 0 /\ idx[k] < nb_bins
  THEN BinLoop(idx, k + 1, [lh EXCEPT ![idx[k] + 1] = @ + 1], nb_bins, oob)
  ELSE IF oob = "crash"
  THEN [crashed |-> TRUE, lh |-> lh, idx |-> SubSeq(idx, 1, k)]
  ELSE BinLoop(idx, k + 1, lh, nb_bins, oob)

----------------------------------------------------------------------------
(* The run.                                                                *)

NoFile == [exists |-> FALSE, writes |-> 0, nb_bins |-> 0, counts |-> <<>>]

Init ==
  /\ env \in Runs
  /\ pc = [r \in Ranks |-> "start"]
  /\ inputs = [r \in Ranks |-> <<>>]
  /\ local_count = [r \in Ranks |-> 0]
  /\ total_count = [r \in Ranks |-> 0]
  /\ density = [r \in Ranks |-> <<>>]
  /\ load_ok = [r \in Ranks |-> "none"]
  /\ total_max = [r \in Ranks |-> 0]
  /\ total_min = [r \in Ranks |-> 0]
  /\ local_histo = [r \in Ranks |-> <<>>]
  /\ indices = [r \in Ranks |-> <<>>]
  /\ histo = [r \in Ranks |-> <<>>]
  /\ sent = [r \in Ranks |-> <<>>]
  /\ outfile = NoFile
  /\ stdout = [r \in Ranks |-> <<>>]

\* rank r enters a collective with its contribution
Enter(r, val) == sent' = [sent EXCEPT ![r] = Append(@, val)]

\* the collective rank r is in has every rank's contribution
Complete(r) == \A q \in Ranks : Len(sent[q]) >= Len(sent[r])

\* the contributions to the collective rank r is in, in rank order
Contributions(r) == [i \in 1..env.nb_ranks |-> sent[i - 1][Len(sent[r])]]

\* Density::Density up to the call of MPI_Allreduce (lines 35-78), or to the
\* throw of line 81, or to a failed assertion
Construct(r) ==
  /\ pc[r] = "start"
  /\ LET partition_size == Len(env.inputs)
         offset == partition_size \div env.nb_ranks
         shard  == Dispatch(env.inputs, r, offset)
         count  == SumSeq([i \in 1..Len(shard) |-> shard[i].count])
     IN  IF ~env.has_fields
         THEN /\ pc' = [pc EXCEPT ![r] = "aborted"]
              /\ UNCHANGED <<inputs, local_count, density, sent, stdout>>
         ELSE IF env.nb_ranks = 1 \/ ~RankMismatch(partition_size, env.nb_ranks)
         THEN IF offset = 0
              THEN /\ pc' = [pc EXCEPT ![r] = "aborted"]
                   /\ UNCHANGED <<inputs, local_count, density, sent, stdout>>
              ELSE /\ inputs' = [inputs EXCEPT ![r] = shard]
                   /\ stdout' = [stdout EXCEPT ![r] =
                                   @ \o [i \in 1..Len(shard) |-> "rank: file"]]
                   /\ local_count' = [local_count EXCEPT ![r] = count]
                   /\ density' = [density EXCEPT ![r] = Zeros(count)]
                   /\ Enter(r, count)
                   /\ pc' = [pc EXCEPT ![r] = "ctor_sum"]
         ELSE /\ pc' = [pc EXCEPT ![r] = "config_error"]
              /\ UNCHANGED <<inputs, local_count, density, sent, stdout>>
  /\ UNCHANGED <<env, total_count, load_ok, total_max, total_min, local_histo,
                 indices, histo, outfile>>

\* the return of the constructor's MPI_Allreduce and lines 83-86
ConstructEnd(r) ==
  /\ pc[r] = "ctor_sum"
  /\ Complete(r)
  /\ total_count' = [total_count EXCEPT ![r] = MPI_SUM(Contributions(r))]
  /\ IF env.nb_bins > 0
     THEN /\ histo' = [histo EXCEPT ![r] = Zeros(env.nb_bins)]
          /\ pc' = [pc EXCEPT ![r] = "constructed"]
     ELSE /\ pc' = [pc EXCEPT ![r] = "aborted"]
          /\ UNCHANGED histo
  /\ UNCHANGED <<env, inputs, local_count, density, load_ok, total_max, total_min,
                 local_histo, indices, sent, outfile, stdout>>

\* loadFiles with run() ending the rank when it returns false
loadFilesOrStop(r) ==
  /\ pc[r] = "constructed"
  /\ LET res == LoadLoop(inputs[r], 1, 0, density[r])
         ok  == ~res.failed /\ res.buf # <<>>
     IN  /\ density' = [density EXCEPT ![r] = res.buf]
         /\ load_ok' = [load_ok EXCEPT ![r] = IF ok THEN "true" ELSE "false"]
         /\ stdout' = [stdout EXCEPT ![r] =
              IF r # 0 THEN @
              ELSE IF res.failed THEN Append(@, "Loading density values ... ")
              ELSE @ \o <<"Loading density values ... ", "done.">>]
         /\ pc' = [pc EXCEPT ![r] = IF ok THEN "loaded" ELSE "aborted"]
  /\ UNCHANGED <<env, inputs, local_count, total_count, total_max, total_min,
                 local_histo, indices, histo, sent, outfile>>

\* Density::loadFiles (lines 90-120), called by run(), which drops its result
loadFiles(r) ==
  /\ pc[r] = "constructed"
  /\ LET res == LoadLoop(inputs[r], 1, 0, density[r])
         ok  == ~res.failed /\ res.buf # <<>>
     IN  /\ density' = [density EXCEPT ![r] = res.buf]
         /\ load_ok' = [load_ok EXCEPT ![r] = IF ok THEN "true" ELSE "false"]
         /\ stdout' = [stdout EXCEPT ![r] =
              IF r # 0 THEN @
              ELSE IF res.failed THEN Append(@, "Loading density values ... ")
              ELSE @ \o <<"Loading density values ... ", "done.">>]
  /\ pc' = [pc EXCEPT ![r] = "loaded"]
  /\ UNCHANGED <<env, inputs, local_count, total_count, total_max, total_min,
                 local_histo, indices, histo, sent, outfile>>

\* computeFrequencies up to the first MPI_Allreduce (lines 124-137)
computeFrequencies(r) ==
  /\ pc[r] = "loaded"
  /\ stdout' = [stdout EXCEPT ![r] =
                  IF r = 0 THEN Append(@, "Computing frequencies ... ") ELSE @]
  /\ IF local_count[r] = 0 \/ total_count[r] = 0
     THEN /\ pc' = [pc EXCEPT ![r] = "aborted"]
          /\ UNCHANGED <<total_max, total_min, sent>>
     ELSE /\ total_max' = [total_max EXCEPT ![r] = 0]
          /\ total_min' = [total_min EXCEPT ![r] = 0]
          /\ Enter(r, MaxSeq(density[r]))
          /\ pc' = [pc EXCEPT ![r] = "max"]
  /\ UNCHANGED <<env, inputs, local_count, total_count, density, load_ok,
                 local_histo, indices, histo, outfile>>

\* the return of the MPI_MAX reduction and the call of the MPI_MIN one (137-138)
ReduceMax(r) ==
  /\ pc[r] = "max"
  /\ Complete(r)
  /\ total_max' = [total_max EXCEPT ![r] = MPI_MAX(Contributions(r))]
  /\ Enter(r, MinSeq(density[r]))
  /\ pc' = [pc EXCEPT ![r] = "min"]
  /\ UNCHANGED <<env, inputs, local_count, total_count, density, load_ok,
                 total_min, local_histo, indices, histo, outfile, stdout>>

\* the end of the binning loop with result res, and the call of the reduction
\* of the counts (lines 150-160)
BinEnd(r, res) ==
  /\ local_histo' = [local_histo EXCEPT ![r] = res.lh]
  /\ indices' = [indices EXCEPT ![r] = res.idx]
  /\ IF res.crashed
     THEN /\ pc' = [pc EXCEPT ![r] = "crashed"]
          /\ UNCHANGED sent
     ELSE /\ Enter(r, res.lh)
          /\ pc' = [pc EXCEPT ![r] = "sum"]

\* lines 138-160 with the rank's own minimum in place of the reduced one
BinAllLocalMin(r, tmin) ==
  /\ total_min' = [total_min EXCEPT ![r] = MinSeq(density[r])]
  /\ \E ub \in UBCastValues, oob \in {"crash", "stray"} :
       BinEnd(r, BinLoop([k \in 1..Len(density[r]) |->
                            BinIndex(density[r][k], MinSeq(density[r]), total_max[r],
                                     env.nb_bins, ub)],
                         1, Zeros(env.nb_bins), env.nb_bins, oob))

\* the return of the MPI_MIN reduction with total_min = tmin, then lines
\* 144-160
BinAll(r, tmin) ==
  /\ total_min' = [total_min EXCEPT ![r] = tmin]
  /\ \E ub \in UBCastValues, oob \in {"crash", "stray"} :
       BinEnd(r, BinLoop([k \in 1..Len(density[r]) |->
                            BinIndex(density[r][k], tmin, total_max[r], env.nb_bins, ub)],
                         1, Zeros(env.nb_bins), env.nb_bins, oob))

\* the return of the MPI_MIN reduction, the binning loop and the call of the
\* reduction of the counts (lines 138-160)
ReduceMinAndBin(r) ==
  /\ pc[r] = "min"
  /\ Complete(r)
  /\ BinAll(r, MPI_MIN(Contributions(r)))
  /\ histo' = [histo EXCEPT ![r] = Zeros(env.nb_bins)]
  /\ UNCHANGED <<env, inputs, local_count, total_count, density, load_ok,
                 total_max, outfile, stdout>>

\* the return of the reduction of the counts with the test my_rank == 0 of
\* line 162 left out: every rank goes on to dumpHistogram
ReduceHistoAllDump(r) ==
  /\ pc[r] = "sum"
  /\ Complete(r)
  /\ histo' = [histo EXCEPT ![r] = MPI_SUM_N(Contributions(r), env.nb_bins)]
  /\ pc' = [pc EXCEPT ![r] = "dump"]
  /\ UNCHANGED <<env, inputs, local_count, total_count, density, load_ok,
                 total_max, total_min, local_histo, indices, outfile, stdout, sent>>

\* the return of the reduction of the counts (line 160); ranks other than 0
\* go on to MPI_Barrier (line 171)
ReduceHisto(r) ==
  /\ pc[r] = "sum"
  /\ Complete(r)
  /\ histo' = [histo EXCEPT ![r] = MPI_SUM_N(Contributions(r), env.nb_bins)]
  /\ IF r = 0
     THEN /\ pc' = [pc EXCEPT ![r] = "dump"]
          /\ UNCHANGED sent
     ELSE /\ Enter(r, "barrier")
          /\ pc' = [pc EXCEPT ![r] = "barrier"]
  /\ UNCHANGED <<env, inputs, local_count, total_count, density, load_ok,
                 total_max, total_min, local_histo, indices, outfile, stdout>>

\* Density::dumpHistogram on rank 0, the prints after it and the call of
\* MPI_Barrier (lines 162-171, 175-195)
dumpHistogram(r) ==
  /\ pc[r] = "dump"
  /\ IF env.out_ok
     THEN /\ outfile' = [exists |-> TRUE, writes |-> outfile.writes + 1,
                         nb_bins |-> env.nb_bins, counts |-> histo[r]]
          /\ stdout' = [stdout EXCEPT ![r] = @ \o <<"done.", "bins", "(min, max)">>]
          /\ Enter(r, "barrier")
          /\ pc' = [pc EXCEPT ![r] = "barrier"]
     ELSE /\ pc' = [pc EXCEPT ![r] = "aborted"]
          /\ UNCHANGED <<outfile, stdout, sent>>
  /\ UNCHANGED <<env, inputs, local_count, total_count, density, load_ok,
                 total_max, total_min, local_histo, indices, histo>>

\* the return of MPI_Barrier followed by another call of computeFrequencies
BarrierRestart(r) ==
  /\ pc[r] = "barrier"
  /\ Complete(r)
  /\ pc' = [pc EXCEPT ![r] = "loaded"]
  /\ UNCHANGED <<env, inputs, local_count, total_count, density, load_ok,
                 total_max, total_min, local_histo, indices, histo, sent,
                 outfile, stdout>>

\* run() returning without the wait of MPI_Barrier
BarrierNoWait(r) ==
  /\ pc[r] = "barrier"
  /\ pc' = [pc EXCEPT ![r] = "done"]
  /\ UNCHANGED <<env, inputs, local_count, total_count, density, load_ok,
                 total_max, total_min, local_histo, indices, histo, sent,
                 outfile, stdout>>

\* the return of MPI_Barrier: run() returns
Barrier(r) ==
  /\ pc[r] = "barrier"
  /\ Complete(r)
  /\ pc' = [pc EXCEPT ![r] = "done"]
  /\ UNCHANGED <<env, inputs, local_count, total_count, density, load_ok,
                 total_max, total_min, local_histo, indices, histo, sent,
                 outfile, stdout>>

Next ==
  \/ \E r \in Ranks : Construct(r)
  \/ \E r \in Ranks : ConstructEnd(r)
  \/ \E r \in Ranks : loadFiles(r)
  \/ \E r \in Ranks : computeFrequencies(r)
  \/ \E r \in Ranks : ReduceMax(r)
  \/ \E r \in Ranks : ReduceMinAndBin(r)
  \/ \E r \in Ranks : ReduceHisto(r)
  \/ \E r \in Ranks : dumpHistogram(r)
  \/ \E r \in Ranks : Barrier(r)

Spec == Init /\ [][Next]_vars

\* a step of rank r
RankStep(r) ==
  /\ r \in Ranks
  /\ \/ Construct(r) \/ ConstructEnd(r) \/ loadFiles(r) \/ computeFrequencies(r)
     \/ ReduceMax(r) \/ ReduceMinAndBin(r) \/ ReduceHisto(r) \/ dumpHistogram(r)
     \/ Barrier(r)

\* every rank is scheduled: a rank that can take a step eventually takes it
FairSpec == Spec /\ \A r \in 0..(MaxRanks - 1) : WF_vars(RankStep(r))

----------------------------------------------------------------------------
(* The properties.  A rank enters its collectives in the order: sum of the *)
(* counts, MPI_MAX, MPI_MIN, sum of the bins, barrier.                     *)

NbFiles == Len(env.inputs)
NbRanks == env.nb_ranks

\* rank r waits inside a collective
InCollective(r) == pc[r] \in {"ctor_sum", "max", "min", "sum", "barrier"}

\* rank r has returned from the k-th collective of the run
Returned(r, k) == Len(sent[r]) > k \/ (Len(sent[r]) = k /\ ~InCollective(r))

PastRange(r) == Returned(r, 3)
PastSum(r)   == Returned(r, 4)

\* rank r ended on a failed assertion of computeFrequencies or dumpHistogram
FatalInRun(r) == pc[r] = "aborted" /\ load_ok[r] # "none"

\* the samples of all the ranks
AllSamples == UNION { ElemsOf(density[q]) : q \in Ranks }

NonDegenerate(r) == total_max[r] # total_min[r]

\* floor((v - tmin) / w) for w = (tmax - tmin) / n, the last bin closed
ExactBin(v, tmin, tmax, n) ==
  IF v = tmax THEN n - 1 ELSE ((v - tmin) * n) \div (tmax - tmin)

\* C1: once loadFiles has failed on a rank, no rank has entered the range
\* reduction and no output file is written
LoadFailureAbortsRun ==
  (\E q \in Ranks : load_ok[q] = "false") =>
     (\A r \in Ranks : Len(sent[r]) < 2) /\ ~outfile.exists

\* C2: when a rank has ended on a fatal error of the run, no rank waits in a
\* collective the dead rank never joins (it would wait forever)
FatalErrorEndsRun ==
  \A q, r \in Ranks :
     FatalInRun(q) /\ InCollective(r) => Len(sent[q]) >= Len(sent[r])

\* C3: a rank that finds total_max = total_min after the range reduction bins
\* nothing, increments no count, and no histogram is written
DegenerateRangeRejected ==
  \A r \in Ranks : PastRange(r) /\ ~NonDegenerate(r) =>
     /\ indices[r] = <<>>
     /\ \A k \in 1..Len(local_histo[r]) : local_histo[r][k] = 0
     /\ ~outfile.exists

\* C4: for a non-degenerate range the entries of the reduced histogram, and of
\* the file written from it, add up to total_count, the number of samples of
\* all the ranks
HistoSumIsTotalCount ==
  \A r \in Ranks : PastSum(r) /\ NonDegenerate(r) =>
     /\ SumSeq(histo[r]) = total_count[r]
     /\ total_count[r] = SumSeq([i \in 1..NbRanks |-> Len(density[i - 1])])
     /\ (r = 0 /\ outfile.exists => SumSeq(outfile.counts) = total_count[r])

HistoSumWitness ==
  /\ NbRanks >= 2 /\ outfile.exists /\ NonDegenerate(0)
  /\ total_count[0] >= 3
  /\ Cardinality({k \in 1..Len(histo[0]) : histo[0][k] > 0}) >= 2

\* C5: for a non-degenerate range every sample of a rank is counted at an index
\* in 0..nb_bins-1, a sample equal to total_max at nb_bins-1, and no write
\* leaves local_histo
IndexInRange ==
  \A r \in Ranks : PastRange(r) /\ NonDegenerate(r) =>
     /\ pc[r] # "crashed"
     /\ Len(indices[r]) = Len(density[r])
     /\ \A k \in 1..Len(indices[r]) :
          /\ indices[r][k] \in 0..(env.nb_bins - 1)
          /\ density[r][k] = total_max[r] => indices[r][k] = env.nb_bins - 1

\* a sample equal to total_max whose index was nb_bins before the decrement
IndexInRangeWitness ==
  \E r \in Ranks : \E k \in 1..Len(indices[r]) :
     /\ PastRange(r) /\ NonDegenerate(r)
     /\ density[r][k] = total_max[r]
     /\ RawIndexOf[<<density[r][k], total_min[r], total_max[r], env.nb_bins>>].val
          = env.nb_bins
     /\ indices[r][k] = env.nb_bins - 1

\* C6: for a non-degenerate range every sample v is counted in bin
\* floor((v - min) / w), w = (max - min) / nb_bins, a sample equal to max in
\* the last bin; [0,1,2] and [3,4] with five bins give range (0, 4) and the
\* histogram [1,1,1,1,1]
CountedInExactBin ==
  /\ \A r \in Ranks : PastRange(r) /\ NonDegenerate(r) =>
       /\ Len(indices[r]) = Len(density[r])
       /\ \A k \in 1..Len(indices[r]) :
            indices[r][k] = ExactBin(density[r][k], total_min[r], total_max[r],
                                     env.nb_bins)
  /\ env = ExampleRun /\ outfile.exists =>
       /\ total_min[0] = 0 /\ total_max[0] = 4
       /\ outfile.counts = <<1, 1, 1, 1, 1>>

\* C7: a rank that has returned from the range reduction holds the minimum and
\* the maximum of the samples of all the ranks, the same pair as every other
\* such rank, and total_max >= total_min
RangeIsTrueExtent ==
  \A r \in Ranks : PastRange(r) =>
     /\ total_min[r] \in AllSamples /\ \A v \in AllSamples : total_min[r] <= v
     /\ total_max[r] \in AllSamples /\ \A v \in AllSamples : total_max[r] >= v
     /\ total_max[r] >= total_min[r]
     /\ \A q \in Ranks : PastRange(q) =>
          total_min[q] = total_min[r] /\ total_max[q] = total_max[r]

\* two ranks past the range reduction, neither extreme being one of rank r's
RangeWitness ==
  \E r, q \in Ranks :
     /\ r # q /\ PastRange(r) /\ PastRange(q)
     /\ total_min[r] \notin ElemsOf(density[r])
     /\ total_max[q] \notin ElemsOf(density[q])

\* C8: a rank that has returned from the reduction of the counts holds a
\* vector of nb_bins entries, entry k the sum of the ranks' local counts of
\* bin k, the same vector as every other such rank
HistoIsSumOfLocal ==
  \A r \in Ranks : PastSum(r) =>
     /\ Len(histo[r]) = env.nb_bins
     /\ \A k \in 1..env.nb_bins :
          histo[r][k] = SumSeq([i \in 1..NbRanks |-> local_histo[i - 1][k]])
     /\ \A q \in Ranks : PastSum(q) => histo[q] = histo[r]

HistoIsSumWitness ==
  /\ NbRanks >= 2
  /\ \A r \in Ranks : PastSum(r) /\ histo[r] # local_histo[r]

\* C9: with NbFiles a multiple of NbRanks, a rank that has run the dispatch
\* loop holds the files at positions r*(T/W) .. (r+1)*(T/W)-1 in their order
\* and, for a non-empty list, did not end on the configuration error; the
\* shards in rank order make up the list; one rank alone holds all of it
ShardIsContiguousBlock ==
  env.has_fields /\ NbFiles % NbRanks = 0 =>
     /\ \A r \in Ranks : pc[r] # "start" =>
          /\ inputs[r] = SubSeq(env.inputs, r * (NbFiles \div NbRanks) + 1,
                                (r + 1) * (NbFiles \div NbRanks))
          /\ NbFiles > 0 => pc[r] # "config_error"
     /\ (\A r \in Ranks : pc[r] # "start") /\ NbFiles > 0 =>
          \A i \in 1..NbFiles :
             env.inputs[i] = inputs[(i - 1) \div (NbFiles \div NbRanks)]
                                   [((i - 1) % (NbFiles \div NbRanks)) + 1]
     /\ NbRanks = 1 /\ pc[0] # "start" => inputs[0] = env.inputs

ShardWitness ==
  /\ NbRanks = 2 /\ NbFiles = 4
  /\ \A r \in Ranks : pc[r] # "start"
  /\ inputs[1] = SubSeq(PartitionInputs, 3, 4)

\* C10: with more than one rank and NbFiles not a multiple of NbRanks, or
\* fewer files than ranks, a rank leaves the constructor only by the
\* configuration error, and no rank has a shard, a sized buffer or a load
MismatchIsConfigError ==
  env.has_fields /\ NbRanks > 1 /\ (NbFiles % NbRanks # 0 \/ NbFiles < NbRanks) =>
     \A r \in Ranks :
        /\ pc[r] \in {"start", "config_error"}
        /\ inputs[r] = <<>> /\ local_count[r] = 0 /\ density[r] = <<>>
        /\ load_ok[r] = "none" /\ sent[r] = <<>>

MismatchWitness ==
  /\ NbRanks = 2 /\ NbFiles = 3
  /\ \A r \in Ranks : pc[r] = "config_error"

\* rank r left the constructor by a failed assertion or by the throw
ConfigErrorEnd(r) ==
  pc[r] = "config_error" \/ (pc[r] = "aborted" /\ load_ok[r] = "none")

\* C11: a rank that ended on a configuration error (a missing field, nb_bins
\* <= 0, the partition mismatch) has taken part in no collective, and no rank
\* waits in a collective such a rank never joins
ConfigErrorBeforeCollectives ==
  \A q \in Ranks : ConfigErrorEnd(q) =>
     /\ sent[q] = <<>>
     /\ \A r \in Ranks : InCollective(r) => Len(sent[q]) >= Len(sent[r])

\* C12: a rank has returned from run() only when rank 0 has written the
\* output file
DoneOnlyAfterWrite ==
  \A r \in Ranks : pc[r] = "done" => outfile.exists /\ outfile.writes = 1

\* a rank other than 0 has returned from run()
DoneAfterWriteWitness ==
  \E r \in Ranks : r # 0 /\ pc[r] = "done" /\ outfile.exists

\* the sum over the ranks of their local counts, bin by bin
GlobalHisto ==
  [k \in 1..env.nb_bins |-> SumSeq([i \in 1..NbRanks |-> local_histo[i - 1][k]])]

\* C13: the output file changes only in a step of rank 0 from dumpHistogram,
\* is written at most once, after rank 0 returned from the reduction of the
\* counts, and holds the sums of the local counts of all the ranks
OnlyRankZeroWritesOnce ==
  /\ [](/\ outfile.writes <= 1
        /\ outfile.exists =>
             /\ PastSum(0)
             /\ outfile.nb_bins = env.nb_bins
             /\ outfile.counts = histo[0]
             /\ outfile.counts = GlobalHisto)
  /\ [][outfile' # outfile =>
          /\ pc[0] = "dump" /\ pc'[0] # "dump"
          /\ \A r \in Ranks \ {0} : pc'[r] = pc[r]]_vars

\* the file written by rank 0 of several holds more than rank 0's own counts
WriteWitness ==
  /\ NbRanks >= 2 /\ outfile.exists /\ outfile.writes = 1
  /\ outfile.counts # local_histo[0]

\* the buffers of ranks 0..n-1, one after the other
RECURSIVE ConcatRanks(_)
ConcatRanks(n) == IF n = 0 THEN <<>> ELSE ConcatRanks(n - 1) \o density[n - 1]

\* the histogram one rank alone computes over buffer buf: lines 135-160 with
\* a single participant in each reduction
SingleWorkerHisto(buf, n) ==
  MPI_SUM_N(<< BinLoop([k \in 1..Len(buf) |->
                          BinIndex(buf[k], MPI_MIN(<<MinSeq(buf)>>),
                                   MPI_MAX(<<MaxSeq(buf)>>), n, 0)],
                       1, Zeros(n), n, "crash").lh >>, n)

\* C14: for a non-degenerate range the histogram a rank holds after the
\* reduction of the counts is the histogram a single rank computes over the
\* samples of all the ranks together
SameAsSingleWorker ==
  \A r \in Ranks : PastSum(r) /\ NonDegenerate(r) =>
     histo[r] = SingleWorkerHisto(ConcatRanks(NbRanks), env.nb_bins)

\* several ranks with different local counts, all past the reduction
SingleWorkerWitness ==
  /\ \A r \in Ranks : PastSum(r) /\ NonDegenerate(r) /\ density[r] # <<>>
  /\ \E r, q \in Ranks : local_histo[r] # local_histo[q]

\* file d of a shard can be opened; read() finds its d.count samples
FileOpens(d) == d.data \in DOMAIN Disk
ReadInFull(d) == Len(Disk[d.data]) >= d.count

\* C15: loadFiles returns true exactly when every file of the shard was
\* opened and read in full and the buffer is not empty
LoadResultIsSound ==
  \A r \in Ranks : load_ok[r] # "none" =>
     (load_ok[r] = "true" <=>
        /\ \A i \in 1..Len(inputs[r]) : FileOpens(inputs[r][i]) /\ ReadInFull(inputs[r][i])
        /\ density[r] # <<>>)

\* C16: a rank other than 0 prints nothing
OnlyRankZeroPrints ==
  \A r \in Ranks \ {0} : stdout[r] = <<>>

\* the local maxima and minima the ranks gave to the range reductions
SentMax == [i \in 1..NbRanks |-> sent[i - 1][2]]
SentMin == [i \in 1..NbRanks |-> sent[i - 1][3]]

\* C17: when a rank has begun to bin, every rank has given its maximum and its
\* minimum to the range reductions, and the rank bins with the maximum and the
\* minimum of those contributions
RangeCompleteBeforeBinning ==
  \A r \in Ranks : indices[r] # <<>> \/ PastRange(r) =>
     /\ \A q \in Ranks : Len(sent[q]) >= 3
     /\ total_max[r] = MaxSeq(SentMax)
     /\ total_min[r] = MinSeq(SentMin)
     /\ NonDegenerate(r) =>
          indices[r] = [k \in 1..Len(density[r]) |->
                          BinIndex(density[r][k], MinSeq(SentMin), MaxSeq(SentMax),
                                   env.nb_bins, 0)]

\* rank r has binned with a range other than (0, 0) while rank q has not yet
\* returned from the MPI_MIN reduction
RangeCompleteWitness ==
  \E r, q \in Ranks :
     /\ pc[r] = "sum" /\ pc[q] = "min" /\ indices[r] # <<>>
     /\ total_min[r] # 0 /\ total_max[r] # 0
     /\ total_min[r] \notin ElemsOf(density[r])

\* the stages of a rank in their order: construction, load, range reduction
\* (MPI_MAX, then MPI_MIN), binning and reduction of the counts, write, final
\* barrier, end of run()
StageNo ==
  ("start" :> 0) @@ ("ctor_sum" :> 1) @@ ("constructed" :> 2) @@ ("loaded" :> 3) @@
  ("max" :> 4) @@ ("min" :> 5) @@ ("sum" :> 6) @@ ("dump" :> 7) @@
  ("barrier" :> 8) @@ ("done" :> 9)

\* a rank that ended before the end of run()
Ended(r) == pc[r] \in {"aborted", "crashed", "config_error"}

\* the collectives a rank has entered when it is at stage p
EnteredAt ==
  ("start" :> 0) @@ ("ctor_sum" :> 1) @@ ("constructed" :> 1) @@ ("loaded" :> 1) @@
  ("max" :> 2) @@ ("min" :> 3) @@ ("sum" :> 4) @@ ("dump" :> 4) @@
  ("barrier" :> 5) @@ ("done" :> 5)

\* C18: a rank moves only to the next stage (past the write if it is not
\* rank 0) or to its end, never back; it loads once, before the range
\* reduction, bins once, after it, and has entered each collective once
StagesInOrder ==
  /\ [](\A r \in Ranks :
          /\ ~Ended(r) => Len(sent[r]) = EnteredAt[pc[r]]
          /\ ~Ended(r) => (load_ok[r] = "none" <=> StageNo[pc[r]] < StageNo["loaded"])
          /\ Len(sent[r]) >= 2 => load_ok[r] # "none"
          /\ indices[r] # <<>> => Len(sent[r]) >= 3
          /\ pc[r] = "dump" => r = 0)
  /\ [][\A r \in Ranks :
          /\ pc'[r] # pc[r] =>
               /\ ~Ended(r) /\ pc[r] # "done"
               /\ \/ pc'[r] \in {"aborted", "crashed", "config_error"}
                  \/ StageNo[pc'[r]] = StageNo[pc[r]] + 1
                  \/ r # 0 /\ pc[r] = "sum" /\ pc'[r] = "barrier"
          /\ load_ok'[r] # load_ok[r] => pc[r] = "constructed" /\ load_ok[r] = "none"
          /\ indices'[r] # indices[r] => pc[r] = "min" /\ indices[r] = <<>>]_vars

\* every rank of several is through all the stages
StagesWitness ==
  /\ NbRanks >= 2
  /\ \A r \in Ranks : pc[r] = "done" /\ Len(sent[r]) = 5 /\ indices[r] # <<>>

\* what the configuration gives rank r: its shard, its number of samples and
\* the buffer loadFiles leaves
ShardOf(r)  == Dispatch(env.inputs, r, NbFiles \div NbRanks)
CountOf(r)  == SumSeq([i \in 1..Len(ShardOf(r)) |-> ShardOf(r)[i].count])
BufferOf(r) == LoadLoop(ShardOf(r), 1, 0, Zeros(CountOf(r))).buf

\* a run whose construction succeeds on every rank, with samples on every
\* rank, a non-degenerate range and an output file that can be opened
GoodRun ==
  /\ env.has_fields /\ env.nb_bins > 0 /\ env.out_ok
  /\ NbFiles > 0 /\ NbFiles % NbRanks = 0
  /\ \A r \in Ranks : CountOf(r) > 0
  /\ Cardinality(UNION { ElemsOf(BufferOf(r)) : r \in Ranks }) >= 2

\* C19: in a good run every rank eventually returns from run(), also when
\* loadFiles fails on some ranks
EveryRankCompletes == GoodRun ~> (\A r \in Ranks : pc[r] = "done")

\* a good run of several ranks, loadFiles having failed on one, is complete
CompletesWitness ==
  /\ GoodRun /\ NbRanks >= 2
  /\ \E q \in Ranks : load_ok[q] = "false"
  /\ \A r \in Ranks : pc[r] = "done"

\* the samples file d holds, up to its declared count
FileSamples(d) ==
  SubSeq(Disk[d.data], 1,
         IF Len(Disk[d.data]) < d.count THEN Len(Disk[d.data]) ELSE d.count)

\* the samples of the first n files of shard l, one file after the other
RECURSIVE ConcatFiles(_, _)
ConcatFiles(l, n) ==
  IF n = 0 THEN <<>> ELSE ConcatFiles(l, n - 1) \o FileSamples(l[n])

\* the declared counts of the first n files of shard l, added up
DeclaredOffset(l, n) == SumSeq([i \in 1..n |-> l[i].count])

\* C20: after loadFiles returned true the buffer is the samples of the files
\* of the shard one after the other, file i in the region that starts at the
\* sum of the counts declared before it, and the last region ends at
\* local_count, the size of the buffer
BufferIsConcatenation ==
  \A r \in Ranks : load_ok[r] = "true" =>
     /\ Len(density[r]) = local_count[r]
     /\ DeclaredOffset(inputs[r], Len(inputs[r])) = local_count[r]
     /\ density[r] = ConcatFiles(inputs[r], Len(inputs[r]))
     /\ \A i \in 1..Len(inputs[r]) :
          SubSeq(density[r], DeclaredOffset(inputs[r], i - 1) + 1,
                 DeclaredOffset(inputs[r], i)) = FileSamples(inputs[r][i])

=============================================================================
